---------------------------- MODULE Spec2Model ----------------------------
(***************************************************************************)
(* IREP rule-induction engine (Classification/IREP): the Condition and     *)
(* Rule representation, IREPModel.train / grow_rule / prune_rule,          *)
(* predict, and the textual saveModel / loadModel format.                  *)
(*                                                                         *)
(* Representation.                                                         *)
(*  - A Python str is a sequence of atoms; an atom is a TLA+ string that   *)
(*    stands for an indivisible run of characters ("IF", "Att", "2.0") or  *)
(*    for one separator character (" ", ":", "-").  split, strip,          *)
(*    startswith and slicing are computed on these sequences.              *)
(*  - A Python float is an integer counting halves (1.0 is 2, 1.5 is 3,    *)
(*    10.5 is 21), so that the thresholds and probes of the documented     *)
(*    example are representable.  str(float) and float(str) are the tables *)
(*    FloatRepr and FloatTable.                                            *)
(*  - An attribute value is a record tagged "num" (ContinuousAttribute) or *)
(*    "str" (DiscreteAttribute).                                           *)
(*  - A file is the sequence of its lines (each without its "\n").         *)
(***************************************************************************)
EXTENDS Integers, Sequences, FiniteSets, TLC

VARIABLES
    rules,              \* IREPModel.rules
    default_class,      \* IREPModel.default_class
    file,               \* the lines of the file written by saveModel
    saved,              \* whether that file exists
    ret,                \* outcome of the last completed call
    pc,                 \* position inside train ("idle" outside of it)
    trainSet,           \* train's argument, in the caller's order
    pruning_ratio,      \* train local, <<numerator, denominator>>
    min_coverage,       \* train local
    classes,            \* train local: labels sorted by frequency
    ci,                 \* train local: the for loop's i (0-based)
    instances,          \* train local: the active pool
    grow_set,           \* train local
    prune_set,          \* train local
    rule,               \* the rule being grown / pruned
    current_instances,  \* grow_rule local
    best_metric,        \* prune_rule local (numerator over len(prune_set))
    last,               \* history: the call that made the model state, and its argument
    hand_loaded         \* history: a hand-written file has been loaded

vars == <<rules, default_class, file, saved, ret, pc, trainSet, pruning_ratio,
          min_coverage, classes, ci, instances, grow_set, prune_set, rule,
          current_instances, best_metric, last, hand_loaded>>

engineVars == <<rules, default_class>>
trainLocals == <<trainSet, pruning_ratio, min_coverage, classes, ci, instances,
                 grow_set, prune_set, rule, current_instances, best_metric>>

-----------------------------------------------------------------------------
(* Python values *)

\* Python's None (the initial default_class); distinct from every str.
None == <<"<None object>">>

Num(n) == [kind |-> "num", num |-> n, str |-> <<>>]
Str(s) == [kind |-> "str", num |-> 0, str |-> s]

\* repr of the floats that occur, in halves: str(1.0) = "1.0", ...
FloatRepr ==
    (2 :> "1.0") @@ (3 :> "1.5") @@ (4 :> "2.0") @@ (6 :> "3.0") @@
    (20 :> "10.0") @@ (21 :> "10.5") @@ (22 :> "11.0")

\* float(s) for the one-atom strings that parse; everything else raises
\* ValueError.  float("2") is 2.0: an integer literal parses as a float.
FloatTable ==
    ("1.0" :> 2) @@ ("1.5" :> 3) @@ ("2.0" :> 4) @@ ("3.0" :> 6) @@
    ("10.0" :> 20) @@ ("10.5" :> 21) @@ ("11.0" :> 22) @@
    ("0" :> 0) @@ ("1" :> 2) @@ ("2" :> 4) @@ ("7" :> 14)

\* int(s) for the one-atom strings that parse; int("1.0") raises ValueError.
IntTable == ("0" :> 0) @@ ("1" :> 1) @@ ("2" :> 2) @@ ("7" :> 7)

\* str(i) of an attribute index
IntRepr == (0 :> "0") @@ (1 :> "1") @@ (2 :> "2") @@ (7 :> "7")

\* Code point of the first character of the atoms that occur as str values.
FirstChar ==
    ("2" :> 50) @@ ("7" :> 55) @@ ("abc" :> 97) @@ ("x" :> 120) @@ ("y" :> 121)

-----------------------------------------------------------------------------
(* Python str operations on atom sequences *)

StartsWith(s, pre) ==
    /\ Len(s) >= Len(pre)
    /\ SubSeq(s, 1, Len(pre)) = pre

\* Index of the first occurrence of sep in s at or after position from; 0 if none.
RECURSIVE Find(_, _, _)
Find(s, sep, from) ==
    IF from + Len(sep) - 1 > Len(s) THEN 0
    ELSE IF SubSeq(s, from, from + Len(sep) - 1) = sep THEN from
    ELSE Find(s, sep, from + 1)

\* s.split(sep): non-overlapping occurrences, left to right.
RECURSIVE Split(_, _)
Split(s, sep) ==
    LET k == Find(s, sep, 1) IN
    IF k = 0 THEN <<s>>
    ELSE <<SubSeq(s, 1, k - 1)>> \o Split(SubSeq(s, k + Len(sep), Len(s)), sep)

\* sep.join(parts)
RECURSIVE Join(_, _)
Join(parts, sep) ==
    IF Len(parts) = 0 THEN <<>>
    ELSE IF Len(parts) = 1 THEN parts[1]
    ELSE parts[1] \o sep \o Join(Tail(parts), sep)

\* s.strip(): leading and trailing blanks removed.
RECURSIVE Strip(_)
Strip(s) ==
    IF Len(s) = 0 THEN s
    ELSE IF Head(s) = " " THEN Strip(Tail(s))
    ELSE IF s[Len(s)] = " " THEN Strip(SubSeq(s, 1, Len(s) - 1))
    ELSE s

\* s <= t for two str values (lexicographic; atoms differ in their first character).
RECURSIVE StrLe(_, _)
StrLe(s, t) ==
    IF Len(s) = 0 THEN TRUE
    ELSE IF Len(t) = 0 THEN FALSE
    ELSE IF Head(s) = Head(t) THEN StrLe(Tail(s), Tail(t))
    ELSE FirstChar[Head(s)] < FirstChar[Head(t)]

\* str(v) of a condition value or of a label.
ValueStr(v) == IF v.kind = "num" THEN <<FloatRepr[v.num]>> ELSE v.str

\* str(x) of a class label or of None.
LabelStr(l) == IF l = None THEN <<"None">> ELSE l

-----------------------------------------------------------------------------
(* Instance collaborator *)

Instance(attrs, label) == [attrs |-> attrs, label |-> label]

\* instance.getAttribute(index).getValue(): the index-th attribute (0-based);
\* an index past the end raises IndexError (a list lookup).
HasAttribute(inst, index) == index + 1 \in DOMAIN inst.attrs
GetAttribute(inst, index) == inst.attrs[index + 1]

-----------------------------------------------------------------------------
(* Condition *)

Condition(attribute_index, operator, value) ==
    [attribute_index |-> attribute_index, operator |-> operator, value |-> value]

\* val <= value / val > value: TypeError between a str and a float.
Comparable(a, b) == a.kind = b.kind
PyLe(a, b) == IF a.kind = "num" THEN a.num <= b.num ELSE StrLe(a.str, b.str)
PyEq(a, b) == a = b

\* Condition.satisfies: "T", "F", or the exception it raises.
Satisfies(cond, inst) ==
    IF ~HasAttribute(inst, cond.attribute_index) THEN "IndexError"
    ELSE LET val == GetAttribute(inst, cond.attribute_index) IN
         IF cond.operator = <<"<=">> THEN
             IF ~Comparable(val, cond.value) THEN "TypeError"
             ELSE IF PyLe(val, cond.value) THEN "T" ELSE "F"
         ELSE IF cond.operator = <<">">> THEN
             IF ~Comparable(val, cond.value) THEN "TypeError"
             ELSE IF ~PyLe(val, cond.value) THEN "T" ELSE "F"
         ELSE IF cond.operator = <<"==">> THEN
             IF PyEq(val, cond.value) THEN "T" ELSE "F"
         ELSE "F"

\* Condition.__str__
CondStr(cond) ==
    <<"Att", "-", IntRepr[cond.attribute_index], " ">> \o cond.operator
        \o <<" ">> \o ValueStr(cond.value)

-----------------------------------------------------------------------------
(* Rule *)

Rule(class_label, conditions) ==
    [class_label |-> class_label, conditions |-> conditions]

\* Rule.covers: conditions are evaluated in order; the first one that is not
\* satisfied ends the scan with False, one that raises ends it with the exception.
RECURSIVE CoversFrom(_, _, _)
CoversFrom(conds, inst, k) ==
    IF k > Len(conds) THEN "T"
    ELSE LET s == Satisfies(conds[k], inst) IN
         IF s = "T" THEN CoversFrom(conds, inst, k + 1) ELSE s

Covers(r, inst) == CoversFrom(r.conditions, inst, 1)

\* Rule.remove_condition (index is 0-based; out of range is a no-op)
RemoveCondition(r, index) ==
    IF 0 <= index /\ index < Len(r.conditions)
    THEN Rule(r.class_label,
              SubSeq(r.conditions, 1, index)
                  \o SubSeq(r.conditions, index + 2, Len(r.conditions)))
    ELSE r

\* Rule.__str__
RECURSIVE CondStrs(_)
CondStrs(conds) ==
    IF Len(conds) = 0 THEN <<>> ELSE <<CondStr(Head(conds))>> \o CondStrs(Tail(conds))

RuleStr(r) ==
    <<"IF", " ">> \o Join(CondStrs(r.conditions), <<" ", "AND", " ">>)
        \o <<" ", "THEN", " ">> \o r.class_label


-----------------------------------------------------------------------------
(* IREPModel.predict *)

Returned(v) == [exc |-> "", value |-> v]
Raised(e) == [exc |-> e, value |-> <<>>]

\* The scan of predict from rule k on: the label of the first covering rule,
\* default_class when the list is exhausted, or the exception covers raised.
RECURSIVE PredictFrom(_, _, _, _)
PredictFrom(rs, dflt, inst, k) ==
    IF k > Len(rs) THEN Returned(dflt)
    ELSE LET c == Covers(rs[k], inst) IN
         IF c = "T" THEN Returned(rs[k].class_label)
         ELSE IF c = "F" THEN PredictFrom(rs, dflt, inst, k + 1)
         ELSE Raised(c)

\* IREPModel.predict
PredictModel(rs, dflt, inst) == PredictFrom(rs, dflt, inst, 1)

-----------------------------------------------------------------------------
(* IREPModel.saveModel *)

RECURSIVE RuleStrs(_)
RuleStrs(rs) ==
    IF Len(rs) = 0 THEN <<>> ELSE <<RuleStr(Head(rs))>> \o RuleStrs(Tail(rs))

SaveLines(rs, dflt) ==
    <<(<<"DefaultClass", ":">> \o LabelStr(dflt))>> \o RuleStrs(rs)

-----------------------------------------------------------------------------
(* IREPModel.parse_and_add_rule / loadModel *)

Failed == [ok |-> FALSE, conditions |-> <<>>]
Parsed(conds) == [ok |-> TRUE, conditions |-> conds]

\* One pass of the "for cond_str in conditions" loop: the Condition, or a
\* failure when an index or a conversion raises.
ParseCondition(cond_str) ==
    LET terms == Split(cond_str, <<" ">>)
        name  == Split(terms[1], <<"-">>)
    IN  IF Len(name) < 2 THEN Failed                         \* split("-")[1]
        ELSE IF ~(Len(name[2]) = 1 /\ name[2][1] \in DOMAIN IntTable)
             THEN Failed                                     \* int(...)
        ELSE IF Len(terms) < 3 THEN Failed                   \* terms[1], terms[2]
        ELSE LET value_str == terms[3]
                 value == IF Len(value_str) = 1 /\ value_str[1] \in DOMAIN FloatTable
                          THEN Num(FloatTable[value_str[1]])
                          ELSE Str(value_str)
             IN  Parsed(<<Condition(IntTable[name[2][1]], terms[2], value)>>)

\* A parse that keeps, on a failure, the conditions parsed before it.
RECURSIVE ParseConditionsKeepPrefix(_, _)
ParseConditionsKeepPrefix(cond_strs, acc) ==
    IF Len(cond_strs) = 0 THEN Parsed(acc)
    ELSE LET c == ParseCondition(Head(cond_strs)) IN
         IF c.ok THEN ParseConditionsKeepPrefix(Tail(cond_strs), acc \o c.conditions)
         ELSE IF Len(acc) > 0 THEN Parsed(acc) ELSE Failed

\* The conditions of the clause, or a failure as soon as one of them fails.
RECURSIVE ParseConditions(_, _)
ParseConditions(cond_strs, acc) ==
    IF Len(cond_strs) = 0 THEN Parsed(acc)
    ELSE LET c == ParseCondition(Head(cond_strs)) IN
         IF c.ok THEN ParseConditions(Tail(cond_strs), acc \o c.conditions)
         ELSE Failed

\* parse_and_add_rule: the rule list after the call.  The bare except makes
\* every failure leave the list as it was.
ParseAndAddRule(rs, line) ==
    LET parts == Split(line, <<" ", "THEN", " ">>) IN
    IF Len(parts) < 2 THEN rs                                \* parts[1]
    ELSE LET class_label    == parts[2]
             condition_part == SubSeq(parts[1], 3, Len(parts[1]))   \* parts[0][3:]
             got == ParseConditions(Split(condition_part, <<" ", "AND", " ">>), <<>>)
         IN  IF got.ok THEN Append(rs, Rule(class_label, got.conditions)) ELSE rs

\* The for loop of loadModel over lines[k..], from the model state m.
RECURSIVE LoadFrom(_, _, _)
LoadFrom(m, lines, k) ==
    IF k > Len(lines) THEN m
    ELSE LET line == Strip(lines[k]) IN
         IF Len(line) = 0 THEN LoadFrom(m, lines, k + 1)
         ELSE IF StartsWith(line, <<"DefaultClass", ":">>)
              THEN LoadFrom([m EXCEPT !.default_class = Split(line, <<":">>)[2]],
                            lines, k + 1)
         ELSE IF StartsWith(line, <<"IF", " ">>)
              THEN LoadFrom([m EXCEPT !.rules = ParseAndAddRule(m.rules, line)],
                            lines, k + 1)
         ELSE LoadFrom(m, lines, k + 1)

\* loadModel on a file that opens: rules is emptied first, default_class is not.
LoadLines(dflt, lines) ==
    LoadFrom([rules |-> <<>>, default_class |-> dflt], lines, 1)


-----------------------------------------------------------------------------
(* Helpers of train *)

RECURSIVE CountLabel(_, _)
CountLabel(insts, lbl) ==
    IF Len(insts) = 0 THEN 0
    ELSE (IF Head(insts).label = lbl THEN 1 ELSE 0) + CountLabel(Tail(insts), lbl)

\* The keys of the counts dict, in insertion (first occurrence) order.
RECURSIVE DistinctLabels(_, _)
DistinctLabels(insts, acc) ==
    IF Len(insts) = 0 THEN acc
    ELSE IF \E k \in DOMAIN acc : acc[k] = Head(insts).label
         THEN DistinctLabels(Tail(insts), acc)
         ELSE DistinctLabels(Tail(insts), Append(acc, Head(insts).label))

\* Position at which a stable ascending sort places lbl among the sorted prefix.
RECURSIVE InsertByCount(_, _, _)
InsertByCount(sorted, lbl, insts) ==
    IF Len(sorted) = 0 THEN <<lbl>>
    ELSE IF CountLabel(insts, sorted[Len(sorted)]) <= CountLabel(insts, lbl)
         THEN Append(sorted, lbl)
         ELSE Append(InsertByCount(SubSeq(sorted, 1, Len(sorted) - 1), lbl, insts),
                     sorted[Len(sorted)])

\* A sort that puts the most frequent label first.
RECURSIVE InsertByCountDescending(_, _, _)
InsertByCountDescending(sorted, lbl, insts) ==
    IF Len(sorted) = 0 THEN <<lbl>>
    ELSE IF CountLabel(insts, sorted[Len(sorted)]) >= CountLabel(insts, lbl)
         THEN Append(sorted, lbl)
         ELSE Append(InsertByCountDescending(SubSeq(sorted, 1, Len(sorted) - 1),
                                             lbl, insts),
                     sorted[Len(sorted)])

RECURSIVE SortFrom(_, _, _)
SortFrom(keys, sorted, insts) ==
    IF Len(keys) = 0 THEN sorted
    ELSE SortFrom(Tail(keys), InsertByCount(sorted, Head(keys), insts), insts)

RECURSIVE SortDescendingFrom(_, _, _)
SortDescendingFrom(keys, sorted, insts) ==
    IF Len(keys) = 0 THEN sorted
    ELSE SortDescendingFrom(Tail(keys),
                            InsertByCountDescending(sorted, Head(keys), insts), insts)

SortedClassesDescending(insts) ==
    SortDescendingFrom(DistinctLabels(insts, <<>>), <<>>, insts)

\* sorted(distinct_classes, key=lambda c: counts[c]): stable, rarest first.
SortedClasses(insts) == SortFrom(DistinctLabels(insts, <<>>), <<>>, insts)

\* has_positive_instances
HasPositiveInstances(insts, pos_class) ==
    \E k \in DOMAIN insts : insts[k].label = pos_class

\* The list comprehension [inst for inst in insts if keep(inst)], for the
\* filters of the code.
RECURSIVE KeepSatisfying(_, _)
KeepSatisfying(insts, cond) ==
    IF Len(insts) = 0 THEN <<>>
    ELSE (IF Satisfies(cond, Head(insts)) = "T" THEN <<Head(insts)>> ELSE <<>>)
             \o KeepSatisfying(Tail(insts), cond)

RECURSIVE KeepCovered(_, _)
KeepCovered(insts, r) ==
    IF Len(insts) = 0 THEN <<>>
    ELSE (IF Covers(r, Head(insts)) = "T" THEN <<Head(insts)>> ELSE <<>>)
             \o KeepCovered(Tail(insts), r)

RECURSIVE DropCovered(_, _)
DropCovered(insts, r) ==
    IF Len(insts) = 0 THEN <<>>
    ELSE (IF Covers(r, Head(insts)) = "T" THEN <<>> ELSE <<Head(insts)>>)
             \o DropCovered(Tail(insts), r)

\* int(len(instances) * pruning_ratio), the ratio given as <<num, den>>.
SplitIdx(n, ratio) == (n * ratio[1]) \div ratio[2]

-----------------------------------------------------------------------------
(* calculate_pruning_metric / calculate_empty_clause_metric *)

\* Both metrics are quotients by len(instances); they are kept as their
\* numerators, which compare as the quotients do.  An empty set gives 0.0.
PruningMetric(r, insts, pos_class) ==
    IF Len(insts) = 0 THEN 0
    ELSE LET P == CountLabel(insts, pos_class)
             N == Len(insts) - P
             covered == KeepCovered(insts, r)
             p == CountLabel(covered, pos_class)
             n == Len(covered) - p
         IN  p + (N - n)

EmptyClauseMetric(insts, pos_class) ==
    IF Len(insts) = 0 THEN 0
    ELSE Len(insts) - CountLabel(insts, pos_class)


-----------------------------------------------------------------------------
(* calculate_foil_gain *)

\* A gain is kept as the counts it is computed from.  With p0, t0 the
\* positives and the size of the pool and p1, t1 those of the subset,
\*     gain = p1 * (log2(p1 / (t1 + 1e-9)) - log2(p0 / (t0 + 1e-9))).
MinusInfinity == [finite |-> FALSE, p0 |-> 0, t0 |-> 0, p1 |-> 0, t1 |-> 0]

\* A gain without the minimum coverage test.
FoilGainNoCoverage(insts, cond, pos_class, min_cov) ==
    LET pos_before == CountLabel(insts, pos_class)
        subset     == KeepSatisfying(insts, cond)
        pos_after  == CountLabel(subset, pos_class)
    IN  IF pos_after = 0 THEN MinusInfinity
        ELSE [finite |-> TRUE, p0 |-> pos_before, t0 |-> Len(insts),
              p1 |-> pos_after, t1 |-> Len(subset)]

FoilGain(insts, cond, pos_class, min_cov) ==
    LET pos_before == CountLabel(insts, pos_class)
        subset     == KeepSatisfying(insts, cond)
        pos_after  == CountLabel(subset, pos_class)
    IN  IF Len(subset) < min_cov THEN MinusInfinity
        ELSE IF pos_after = 0 THEN MinusInfinity
        ELSE [finite |-> TRUE, p0 |-> pos_before, t0 |-> Len(insts),
              p1 |-> pos_after, t1 |-> Len(subset)]

RECURSIVE Pow(_, _)
Pow(b, e) == IF e = 0 THEN 1 ELSE b * Pow(b, e - 1)

\* gain >= 0
GainPositiveOrZero(g) == g.finite /\ g.p1 * g.t0 >= g.p0 * g.t1

\* gain > 0: the subset is strictly purer than the pool.  (The 1e-9 terms
\* make an equally pure smaller subset score just below 0.)
GainPositive(g) == g.finite /\ g.p1 * g.t0 > g.p0 * g.t1

\* g > h for two gains over the same pool: 2^gain is
\* ((p1 * t0) / (p0 * t1))^p1, compared by cross-multiplication.
GainGreater(g, h) ==
    IF ~g.finite THEN FALSE
    ELSE IF ~h.finite THEN TRUE
    ELSE IF g.p1 >= h.p1
         THEN Pow(g.p1, g.p1) * Pow(g.t0, g.p1 - h.p1) * Pow(h.t1, h.p1)
                  > Pow(h.p1, h.p1) * Pow(g.t1, g.p1) * Pow(g.p0, g.p1 - h.p1)
         ELSE Pow(g.p1, g.p1) * Pow(h.t1, h.p1) * Pow(g.p0, h.p1 - g.p1)
                  > Pow(h.p1, h.p1) * Pow(g.t1, g.p1) * Pow(g.t0, h.p1 - g.p1)

-----------------------------------------------------------------------------
(* grow_rule: the candidate search of one pass of its while loop *)

\* get_distinct_values: sorted(list(values))
RECURSIVE SortedValues(_)
SortedValues(S) ==
    IF S = {} THEN <<>>
    ELSE LET m == CHOOSE v \in S : \A w \in S : PyLe(v, w)
         IN  <<m>> \o SortedValues(S \ {m})

GetDistinctValues(insts, attribute_index) ==
    SortedValues({GetAttribute(insts[k], attribute_index) : k \in DOMAIN insts})

\* The conditions tried for one attribute, in the order the loops try them.
RECURSIVE ContinuousCandidates(_, _)
ContinuousCandidates(i, values) ==
    IF Len(values) = 0 THEN <<>>
    ELSE <<Condition(i, <<"<=">>, Head(values)), Condition(i, <<">">>, Head(values))>>
             \o ContinuousCandidates(i, Tail(values))

RECURSIVE DiscreteCandidates(_, _)
DiscreteCandidates(i, values) ==
    IF Len(values) = 0 THEN <<>>
    ELSE <<Condition(i, <<"==">>, Head(values))>> \o DiscreteCandidates(i, Tail(values))

\* All candidates from attribute i on; sample is sample_instance.
RECURSIVE Candidates(_, _, _)
Candidates(insts, sample, i) ==
    IF i >= Len(sample.attrs) THEN <<>>
    ELSE (IF GetAttribute(sample, i).kind = "num"
          THEN ContinuousCandidates(i, GetDistinctValues(insts, i))
          ELSE DiscreteCandidates(i, GetDistinctValues(insts, i)))
             \o Candidates(insts, sample, i + 1)

NoBest == [found |-> FALSE, cond |-> Condition(0, <<>>, Num(0)), gain |-> MinusInfinity]

\* An assignment to a local: v is evaluated once and F is applied to its value.
Local(v, F(_)) == CHOOSE r \in { F(x) : x \in {v} } : TRUE

\* The scan over the candidates: a candidate replaces the best one only when
\* its gain is strictly greater.
RECURSIVE BestCondition(_, _, _, _, _)
BestCondition(cands, best, insts, pos_class, min_cov) ==
    IF Len(cands) = 0 THEN best
    ELSE Local(FoilGain(insts, Head(cands), pos_class, min_cov),
               LAMBDA gain :
                   Local(IF GainGreater(gain, best.gain)
                         THEN [found |-> TRUE, cond |-> Head(cands), gain |-> gain]
                         ELSE best,
                         LAMBDA better :
                             BestCondition(Tail(cands), better, insts, pos_class,
                                           min_cov)))

\* One pass of grow_rule's while loop on the covered pool cur: the condition it
\* appends, or found = FALSE when the loop breaks.
GrowSearch(cur, sample, pos_class, min_cov) ==
    IF CountLabel(cur, pos_class) = Len(cur) THEN NoBest        \* no negatives
    ELSE Local(Candidates(cur, sample, 0),
               LAMBDA cands :
                   Local(BestCondition(cands, NoBest, cur, pos_class, min_cov),
                         LAMBDA best :
                             IF ~best.found \/ ~GainPositive(best.gain)
                             THEN NoBest ELSE best))

-----------------------------------------------------------------------------
(* prune_rule: one pass of its while loop *)

\* The for loop over the positions i..length-1: best is the running
\* <<best_metric, best_temp_rule, improved>>.
RECURSIVE PruneScan(_, _, _, _, _)
PruneScan(r, i, best, insts, pos_class) ==
    IF i >= Len(r.conditions) THEN best
    ELSE LET temp_rule == RemoveCondition(r, i)
             metric    == PruningMetric(temp_rule, insts, pos_class)
         IN  PruneScan(r, i + 1,
                       IF metric > best.metric
                       THEN [metric |-> metric, rule |-> temp_rule, improved |-> TRUE]
                       ELSE best,
                       insts, pos_class)

PrunePass(r, metric, insts, pos_class) ==
    PruneScan(r, 0, [metric |-> metric, rule |-> r, improved |-> FALSE],
              insts, pos_class)


-----------------------------------------------------------------------------
(* Inputs *)

A == <<"A">>
B == <<"B">>
C == <<"C">>

\* The documented example: one continuous attribute, A at 1.0 and 2.0,
\* B at 10.0 and 11.0.
ExampleSet ==
    << Instance(<<Num(2)>>, A), Instance(<<Num(4)>>, A),
       Instance(<<Num(20)>>, B), Instance(<<Num(22)>>, B) >>

\* Three classes over a continuous and a discrete attribute; the discrete
\* attribute takes the values "2" and "x".
MixedSet ==
    << Instance(<<Num(2), Str(<<"2">>)>>, A), Instance(<<Num(6), Str(<<"2">>)>>, A),
       Instance(<<Num(6), Str(<<"x">>)>>, B), Instance(<<Num(2), Str(<<"2">>)>>, C),
       Instance(<<Num(2), Str(<<"x">>)>>, C) >>

\* Degenerate inputs: no instance, and one class only.
EmptySet == <<>>
SingleClassSet == << Instance(<<Num(2)>>, C), Instance(<<Num(4)>>, C) >>

DataSets == {ExampleSet, MixedSet, EmptySet, SingleClassSet}

\* (pruning_ratio, min_coverage); <<66, 100>> with 1 are the defaults of train.
ParameterChoices ==
    { <<<<1, 2>>, 1>>, <<<<66, 100>>, 1>>, <<<<1, 1>>, 1>>, <<<<66, 100>>, 2>> }

\* The instances predict is called on: the probes [1.5] and [10.5] of the
\* example and the instances of the data sets.
ExampleProbes == { Instance(<<Num(3)>>, None), Instance(<<Num(21)>>, None) }

Probes == ExampleProbes \cup { MixedSet[k] : k \in DOMAIN MixedSet }

-----------------------------------------------------------------------------
(* State *)

NoRule == Rule(<<>>, <<>>)
NoParameters == <<<<0, 1>>, 0>>
NoReturn == Returned(None)

\* train's locals outside of a call.
LocalsIdle ==
    /\ trainSet = <<>>
    /\ pruning_ratio = <<0, 1>>
    /\ min_coverage = 0
    /\ classes = <<>>
    /\ ci = 0
    /\ instances = <<>>
    /\ grow_set = <<>>
    /\ prune_set = <<>>
    /\ rule = NoRule
    /\ current_instances = <<>>
    /\ best_metric = 0

\* IREPModel.__init__
Init ==
    /\ rules = <<>>
    /\ default_class = None
    /\ file = <<>>
    /\ saved = FALSE
    /\ ret = NoReturn
    /\ pc = "idle"
    /\ last = [op |-> "init", arg |-> <<>>, par |-> NoParameters]
    /\ hand_loaded = FALSE
    /\ LocalsIdle


-----------------------------------------------------------------------------
(* IREPModel.train *)

\* The class the current pass of the for loop learns.
PosClass == classes[ci + 1]

ResetLocals ==
    /\ trainSet' = <<>>
    /\ pruning_ratio' = <<0, 1>>
    /\ min_coverage' = 0
    /\ classes' = <<>>
    /\ ci' = 0
    /\ instances' = <<>>
    /\ grow_set' = <<>>
    /\ prune_set' = <<>>
    /\ rule' = NoRule
    /\ current_instances' = <<>>
    /\ best_metric' = 0

\* The call up to the shuffle: parameters, class ordering, the early return
\* for fewer than two classes, and the reset of the rule list.  (The reset is
\* the statement after the shuffle; the two touch different objects and
\* nothing runs between them.)
TrainCall(ds, par) ==
    /\ pc = "idle"
    /\ LET cls == SortedClasses(ds) IN
       IF Len(cls) < 2
       THEN /\ default_class' = IF Len(cls) = 1 THEN cls[1] ELSE default_class
            /\ UNCHANGED <<rules, pc>>
            /\ UNCHANGED trainLocals
       ELSE /\ trainSet' = ds
            /\ pruning_ratio' = par[1]
            /\ min_coverage' = par[2]
            /\ classes' = cls
            /\ instances' = ds
            /\ rules' = <<>>
            /\ ci' = 0
            /\ pc' = "shuffle"
            /\ UNCHANGED <<default_class, grow_set, prune_set, rule,
                           current_instances, best_metric>>
    /\ ret' = NoReturn
    /\ last' = [op |-> "train", arg |-> ds, par |-> par]
    /\ UNCHANGED <<file, saved, hand_loaded>>

\* random.shuffle(instances): any permutation, whatever the seed.
Shuffle(perm) ==
    /\ pc = "shuffle"
    /\ instances' = [k \in DOMAIN instances |-> instances[perm[k]]]
    /\ pc' = "while"
    /\ UNCHANGED <<rules, default_class, file, saved, ret, last, hand_loaded, trainSet,
                   pruning_ratio, min_coverage, classes, ci, grow_set, prune_set,
                   rule, current_instances, best_metric>>

\* The while test of the current class: either the next class is taken up, or
\* the pool is split and grow_rule starts on the growing set.
WhileTest ==
    /\ pc = "while"
    /\ ci < Len(classes) - 1
    /\ IF HasPositiveInstances(instances, PosClass)
       THEN LET split_idx == SplitIdx(Len(instances), pruning_ratio)
                grow      == SubSeq(instances, 1, split_idx)
                rest      == SubSeq(instances, split_idx + 1, Len(instances))
            IN  /\ grow_set' = grow
                /\ prune_set' = IF Len(rest) = 0 THEN grow ELSE rest
                /\ rule' = Rule(PosClass, <<>>)
                /\ current_instances' = grow
                /\ pc' = "grow"
                /\ UNCHANGED ci
       ELSE /\ ci' = ci + 1
            /\ UNCHANGED <<grow_set, prune_set, rule, current_instances, pc>>
    /\ UNCHANGED <<rules, default_class, file, saved, ret, last, hand_loaded, trainSet,
                   pruning_ratio, min_coverage, classes, instances, best_metric>>

\* One pass of grow_rule's while loop; when it breaks, prune_rule starts.
GrowStep ==
    /\ pc = "grow"
    /\ \E best \in { GrowSearch(current_instances,
                                 IF Len(grow_set) > 0 THEN grow_set[1] ELSE trainSet[1],
                                 PosClass, min_coverage) } :
           IF best.found
           THEN /\ rule' = Rule(rule.class_label, Append(rule.conditions, best.cond))
                /\ current_instances' = KeepSatisfying(current_instances, best.cond)
                /\ UNCHANGED <<pc, best_metric>>
           ELSE /\ pc' = "prune"
                /\ best_metric' = PruningMetric(rule, prune_set, PosClass)
                /\ current_instances' = <<>>
                /\ UNCHANGED rule
    /\ UNCHANGED <<rules, default_class, file, saved, ret, last, hand_loaded, trainSet,
                   pruning_ratio, min_coverage, classes, ci, instances, grow_set,
                   prune_set>>

\* One pass of prune_rule's while loop.
PruneStep ==
    /\ pc = "prune"
    /\ LET pass == PrunePass(rule, best_metric, prune_set, PosClass) IN
       IF Len(rule.conditions) > 0 /\ pass.improved
       THEN /\ rule' = Rule(rule.class_label, pass.rule.conditions)
            /\ best_metric' = pass.metric
            /\ UNCHANGED pc
       ELSE /\ pc' = "decide"
            /\ UNCHANGED <<rule, best_metric>>
    /\ UNCHANGED <<rules, default_class, file, saved, ret, last, hand_loaded, trainSet,
                   pruning_ratio, min_coverage, classes, ci, instances, grow_set,
                   prune_set, current_instances>>

\* A stopping test that lets a rule pass when it only equals the baseline.
StopsOnlyBelowBaseline(r, insts, pos_class) ==
    \/ Len(r.conditions) = 0
    \/ PruningMetric(r, insts, pos_class) < EmptyClauseMetric(insts, pos_class)

\* rule.get_length() == 0 or rule_acc <= empty_acc
Stops(r, insts, pos_class) ==
    \/ Len(r.conditions) = 0
    \/ PruningMetric(r, insts, pos_class) <= EmptyClauseMetric(insts, pos_class)

\* The stopping test: the rule is dropped and the class is left (break), or
\* the rule is appended and what it covers leaves the pool.
Decide ==
    /\ pc = "decide"
    /\ IF Stops(rule, prune_set, PosClass)
       THEN /\ ci' = ci + 1
            /\ UNCHANGED <<rules, instances>>
       ELSE /\ rules' = Append(rules, rule)
            /\ instances' = DropCovered(instances, rule)
            /\ UNCHANGED ci
    /\ pc' = "while"
    /\ grow_set' = <<>>
    /\ prune_set' = <<>>
    /\ rule' = NoRule
    /\ best_metric' = 0
    /\ UNCHANGED <<default_class, file, saved, ret, last, hand_loaded, trainSet,
                   pruning_ratio, min_coverage, classes, current_instances>>

\* After the for loop: the last class becomes the default class.
TrainReturn ==
    /\ pc = "while"
    /\ ci >= Len(classes) - 1
    /\ default_class' = classes[Len(classes)]
    /\ pc' = "idle"
    /\ ResetLocals
    /\ UNCHANGED <<rules, file, saved, ret, last, hand_loaded>>

TrainStep ==
    \/ \E perm \in Permutations(DOMAIN instances) : Shuffle(perm)
    \/ WhileTest
    \/ GrowStep
    \/ PruneStep
    \/ Decide
    \/ TrainReturn

Train == \E ds \in DataSets, par \in ParameterChoices : TrainCall(ds, par)

-----------------------------------------------------------------------------
(* Model files written by hand *)

Att(i) == <<"Att", "-", IntRepr[i]>>
Words(ws) == Join(ws, <<" ">>)

\* Each line with what the format makes of it: kind "rule" for a rule line
\* that parses (means is the rule), "bad" for a line starting with "IF " that
\* does not, "default" for the DefaultClass line (means.class_label is the
\* label), "skip" for a blank or foreign line.
FileLine(text, kind, means) == [text |-> text, kind |-> kind, means |-> means]

LineDefaultB ==
    FileLine(<<"DefaultClass", ":", "B">>, "default", Rule(B, <<>>))
\* IF Att-0 <= 2.0 THEN A
LineThreshold ==
    FileLine(Words(<< <<"IF">>, Att(0), <<"<=">>, <<"2.0">>, <<"THEN">>, A >>), "rule",
             Rule(A, <<Condition(0, <<"<=">>, Num(4))>>))
\* IF Att-0 > 1.0 AND Att-1 == x THEN B, with blanks around it
LineTwoConditions ==
    FileLine(<<" ">> \o Words(<< <<"IF">>, Att(0), <<">">>, <<"1.0">>, <<"AND">>,
                                 Att(1), <<"==">>, <<"x">>, <<"THEN">>, B >>) \o <<" ">>,
             "rule",
             Rule(B, <<Condition(0, <<">">>, Num(2)),
                       Condition(1, <<"==">>, Str(<<"x">>))>>))
\* IF Att-0 != 1.0 THEN C: an operator satisfies does not know
LineUnsupportedOperator ==
    FileLine(Words(<< <<"IF">>, Att(0), <<"!=">>, <<"1.0">>, <<"THEN">>, C >>), "rule",
             Rule(C, <<Condition(0, <<"!=">>, Num(2))>>))
\* IF Att-0 <= abc THEN A: the value stays a string token
LineStringValue ==
    FileLine(Words(<< <<"IF">>, Att(0), <<"<=">>, <<"abc">>, <<"THEN">>, A >>), "rule",
             Rule(A, <<Condition(0, <<"<=">>, Str(<<"abc">>))>>))
\* IF Att-0 <= 2.0 AND Att-1 THEN A: the second condition is cut short
LineTruncatedCondition ==
    FileLine(Words(<< <<"IF">>, Att(0), <<"<=">>, <<"2.0">>, <<"AND">>, Att(1),
                      <<"THEN">>, A >>), "bad", NoRule)
\* IF Att-0 <= 2.0: no THEN part
LineNoThen ==
    FileLine(Words(<< <<"IF">>, Att(0), <<"<=">>, <<"2.0">> >>), "bad", NoRule)
\* IF  THEN A: the rendering of a rule without conditions
LineEmptyClause ==
    FileLine(Words(<< <<"IF">>, <<>>, <<"THEN">>, A >>), "bad", NoRule)
LineBlank == FileLine(<<" ", " ">>, "skip", NoRule)

FileLines ==
    { LineDefaultB, LineThreshold, LineTwoConditions, LineUnsupportedOperator,
      LineStringValue, LineTruncatedCondition, LineNoThen, LineEmptyClause,
      LineBlank }

MaxFileLines == 2

\* The hand-written files: every sequence of at most MaxFileLines lines.
HandFiles == UNION { [1..n -> FileLines] : n \in 0..MaxFileLines }

RECURSIVE Texts(_)
Texts(f) == IF Len(f) = 0 THEN <<>> ELSE <<Head(f).text>> \o Texts(Tail(f))

-----------------------------------------------------------------------------
(* predict, saveModel, loadModel as calls *)

Predict(inst) ==
    /\ pc = "idle"
    /\ ret' = PredictModel(rules, default_class, inst)
    /\ UNCHANGED <<rules, default_class, file, saved, pc, last, hand_loaded>>
    /\ UNCHANGED trainLocals

SaveModel ==
    /\ pc = "idle"
    /\ file' = SaveLines(rules, default_class)
    /\ saved' = TRUE
    /\ ret' = NoReturn
    /\ UNCHANGED <<rules, default_class, pc, last, hand_loaded>>
    /\ UNCHANGED trainLocals

\* loadModel on a file that opens, holding the given lines; op and arg are
\* what last records of the call.
LoadModel(lines, op, arg) ==
    /\ pc = "idle"
    /\ LET m == LoadLines(default_class, lines) IN
        /\ rules' = m.rules
        /\ default_class' = m.default_class
    /\ ret' = NoReturn
    /\ last' = [op |-> op, arg |-> arg, par |-> NoParameters]
    /\ UNCHANGED <<file, saved, pc>>
    /\ UNCHANGED trainLocals

\* loadModel of a hand-written file.
LoadHandFile ==
    \E f \in HandFiles : LoadModel(Texts(f), "load", f) /\ hand_loaded' = TRUE

\* loadModel of the file saveModel wrote.
LoadSavedFile ==
    saved /\ LoadModel(file, "load_saved", <<>>) /\ UNCHANGED hand_loaded

\* loadModel of a file that does not open: the list is emptied before open
\* raises, the exception is caught and printed.
LoadMissingFile ==
    /\ pc = "idle"
    /\ rules' = <<>>
    /\ ret' = NoReturn
    /\ last' = [op |-> "load_missing", arg |-> <<>>, par |-> NoParameters]
    /\ UNCHANGED <<default_class, file, saved, pc, hand_loaded>>
    /\ UNCHANGED trainLocals

-----------------------------------------------------------------------------
(* Specification *)

\* Exploration: a run loads at most one hand-written file, and trains and
\* loads hand-written files until its first saveModel; after that it goes on
\* with the saved file.  (train and loadModel of another file neither read nor
\* write the saved file, and loadModel empties the rule list whatever it held.)
Next ==
    \/ ~saved /\ Train
    \/ TrainStep
    \/ \E inst \in Probes : Predict(inst)
    \/ SaveModel
    \/ ~saved /\ ~hand_loaded /\ LoadHandFile
    \/ LoadSavedFile
    \/ LoadMissingFile

Spec == Init /\ [][Next]_vars

\* train is one synchronous call: once entered it keeps running.
FairSpec == Spec /\ WF_vars(TrainStep)


-----------------------------------------------------------------------------
(* Properties *)

\* What the format makes of a hand-written file: the rules of its rule lines,
\* in file order, and the label of its (last) DefaultClass line.
RECURSIVE ExpectedRules(_)
ExpectedRules(f) ==
    IF Len(f) = 0 THEN <<>>
    ELSE (IF Head(f).kind = "rule" THEN <<Head(f).means>> ELSE <<>>)
             \o ExpectedRules(Tail(f))

RECURSIVE ExpectedDefault(_, _)
ExpectedDefault(f, unset) ==
    IF Len(f) = 0 THEN unset
    ELSE ExpectedDefault(Tail(f),
                         IF Head(f).kind = "default" THEN Head(f).means.class_label
                         ELSE unset)

Labels(ds) == { ds[k].label : k \in DOMAIN ds }

\* A completed train call made the current model state.
Trained == pc = "idle" /\ last.op = "train"

\* C1: a model made by train, saved with saveModel and loaded into a fresh
\* engine, predicts on every instance of its training set what the trained
\* model predicts.
C1_RoundTrip ==
    (Trained /\ saved) =>
        LET loaded == LoadLines(None, file) IN
        \A k \in DOMAIN last.arg :
            PredictModel(loaded.rules, loaded.default_class, last.arg[k])
                = PredictModel(rules, default_class, last.arg[k])

\* C2: after loadModel of a file, the rule list is exactly the rules of the
\* file's rule lines in file order, and default_class is the label of the
\* file's DefaultClass line; nothing of the prior state survives (without
\* such a line default_class is unset).
C2_LoadReplacesState ==
    (pc = "idle" /\ last.op = "load") =>
        /\ rules = ExpectedRules(last.arg)
        /\ default_class = ExpectedDefault(last.arg, None)

\* C3: train on a set with one distinct label leaves zero rules and that
\* label as default_class; train on no instance leaves zero rules and
\* default_class unset; whatever the engine held before the call.
C3_DegenerateTraining ==
    (Trained /\ Cardinality(Labels(last.arg)) < 2) =>
        /\ rules = <<>>
        /\ default_class = IF Len(last.arg) = 0 THEN None ELSE last.arg[1].label

\* The example of the specification: the four instances, pruning_ratio 0.5,
\* min_coverage 1.
ExampleTrained ==
    Trained /\ last.arg = ExampleSet /\ last.par = <<<<1, 2>>, 1>>

ExampleRule == Rule(A, <<Condition(0, <<"<=">>, Num(4))>>)

\* C4 as stated: whatever the shuffle, the example yields a rule for A with a
\* threshold condition on attribute 0, default_class B, A for [1.5] and B for
\* [10.5].
C4_EveryShuffle ==
    ExampleTrained =>
        /\ \E k \in DOMAIN rules :
              /\ rules[k].class_label = A
              /\ \E j \in DOMAIN rules[k].conditions :
                    /\ rules[k].conditions[j].attribute_index = 0
                    /\ rules[k].conditions[j].operator \in {<<"<=">>, <<">">>}
        /\ default_class = B
        /\ PredictModel(rules, default_class, Instance(<<Num(3)>>, None)) = Returned(A)
        /\ PredictModel(rules, default_class, Instance(<<Num(21)>>, None)) = Returned(B)

\* C4: the example always yields default_class B and B for [10.5]; it yields
\* either the single rule IF Att-0 <= 2.0 THEN A, and then A for [1.5], or no
\* rule at all, and then B for [1.5].  The rule is accepted exactly when the
\* shuffle puts A:[2.0] and an instance of B into the growing set.
C4_Example ==
    /\ ExampleTrained =>
          /\ default_class = B
          /\ PredictModel(rules, default_class, Instance(<<Num(21)>>, None)) = Returned(B)
          /\ \/ /\ rules = <<ExampleRule>>
                /\ PredictModel(rules, default_class, Instance(<<Num(3)>>, None))
                       = Returned(A)
             \/ /\ rules = <<>>
                /\ PredictModel(rules, default_class, Instance(<<Num(3)>>, None))
                       = Returned(B)
    /\ (/\ pc = "decide" /\ trainSet = ExampleSet
        /\ pruning_ratio = <<1, 2>> /\ min_coverage = 1) =>
          LET grown == { grow_set[k] : k \in DOMAIN grow_set } IN
          (rule = ExampleRule /\ ~Stops(rule, prune_set, PosClass))
              <=> (/\ Instance(<<Num(4)>>, A) \in grown
                   /\ \E x \in grown : x.label = B)

C4_RuleLearned == ExampleTrained /\ rules = <<ExampleRule>>

\* The instance holds every attribute the rules refer to.
HasAll(rs, inst) ==
    \A k \in DOMAIN rs : \A j \in DOMAIN rs[k].conditions :
        HasAttribute(inst, rs[k].conditions[j].attribute_index)

\* Every condition of the rule is satisfied by the instance.
SatisfiedBy(r, inst) ==
    \A j \in DOMAIN r.conditions : Satisfies(r.conditions[j], inst) = "T"

\* C5: whatever the rule list and default_class, predict returns the label of
\* the first rule of the list whose every condition the instance satisfies,
\* and default_class exactly when there is no such rule.
C5_FirstMatch ==
    (pc = "idle") =>
        \A inst \in Probes :
            HasAll(rules, inst) =>
                LET matching == { k \in DOMAIN rules : SatisfiedBy(rules[k], inst) } IN
                PredictModel(rules, default_class, inst) =
                    Returned(IF matching = {} THEN default_class
                             ELSE rules[CHOOSE k \in matching :
                                            \A j \in matching : k <= j].class_label)

\* C6: after train on a set with at least two distinct labels, no label has
\* more training instances than default_class.
C6_DefaultMostFrequent ==
    (Trained /\ Cardinality(Labels(last.arg)) >= 2) =>
        \A l \in Labels(last.arg) :
            CountLabel(last.arg, default_class) >= CountLabel(last.arg, l)

C6_ThreeClassesTrained ==
    Trained /\ Cardinality(Labels(last.arg)) >= 3 /\ rules # <<>>

CountInstance(insts, x) == Cardinality({ k \in DOMAIN insts : insts[k] = x })

\* C7: during train the pool never gains an instance, and every step that
\* appends a rule leaves strictly fewer instances of the current positive
\* class in the pool.
C7_PoolShrinks ==
    [][ /\ (pc # "idle") =>
              \A k \in DOMAIN instances' :
                  CountInstance(instances', instances'[k])
                      <= CountInstance(instances, instances'[k])
        /\ (pc = "decide" /\ rules' # rules) =>
              /\ rules' = Append(rules, rule)
              /\ CountLabel(instances', PosClass) < CountLabel(instances, PosClass)
      ]_vars

C7_RuleAccepted ==
    pc = "while" /\ Len(rules) > 0 /\ Len(instances) < Len(trainSet)

\* C8: after loadModel of a file, the rule list holds exactly the rules of
\* the well-formed rule lines, in file order: a line starting with "IF " that
\* fails to parse adds nothing, not even the conditions parsed before the
\* failure, and does not stop the lines after it from loading.
C8_MalformedSkipped ==
    (pc = "idle" /\ last.op = "load") => rules = ExpectedRules(last.arg)

C8_TruncatedThenRule ==
    /\ pc = "idle" /\ last.op = "load"
    /\ \E i, j \in DOMAIN last.arg :
          i < j /\ last.arg[i] = LineTruncatedCondition /\ last.arg[j].kind = "rule"
    /\ Len(rules) = 1

\* C9: on the rule list of any loaded file predict returns a label and never
\* raises, and a condition with an operator other than "<=", ">", "==" is
\* not satisfied.
C9_PredictTotal ==
    (pc = "idle" /\ last.op = "load") =>
        \A inst \in Probes :
            HasAll(rules, inst) =>
                /\ PredictModel(rules, default_class, inst).exc = ""
                /\ \A k \in DOMAIN rules : \A j \in DOMAIN rules[k].conditions :
                      rules[k].conditions[j].operator \notin {<<"<=">>, <<">">>, <<"==">>}
                          => Satisfies(rules[k].conditions[j], inst) = "F"

\* C10: train returns; every pass of the per-class while loop breaks or takes
\* an instance of the positive class out of the pool, every condition
\* grow_rule appends strictly shrinks the covered pool, and every further pass
\* of prune_rule's loop has removed a condition.
C10_Terminates ==
    /\ [][ /\ (pc = "decide") =>
                 \/ ci' = ci + 1
                 \/ CountLabel(instances', PosClass) < CountLabel(instances, PosClass)
           /\ (pc = "grow" /\ pc' = "grow") =>
                 /\ Len(rule'.conditions) = Len(rule.conditions) + 1
                 /\ Len(current_instances') < Len(current_instances)
           /\ (pc = "prune" /\ pc' = "prune") =>
                 Len(rule'.conditions) = Len(rule.conditions) - 1
         ]_vars
    /\ (pc # "idle") ~> (pc = "idle")

C10_TwoRulesReturned ==
    Trained /\ last.arg = MixedSet /\ Len(rules) >= 2

\* The number of instances of insts the rule covers.
Coverage(r, insts) == Cardinality({ k \in DOMAIN insts : Covers(r, insts[k]) = "T" })

\* C11: every rule train appends has at least one condition and covers at
\* least min_coverage instances of the growing set it was grown on, hence of
\* the pool; a rule leaves grow_rule with that coverage, and a pass of
\* prune_rule that removes a condition never lowers it.
C11_MinCoverage ==
    [][ /\ (pc = "decide" /\ rules' # rules) =>
              /\ rules' = Append(rules, rule)
              /\ Len(rule.conditions) >= 1
              /\ Coverage(rule, grow_set) >= min_coverage
              /\ Coverage(rule, instances) >= min_coverage
        /\ (pc = "grow" /\ pc' = "prune" /\ Len(rule.conditions) >= 1) =>
              Coverage(rule, grow_set) >= min_coverage
        /\ (pc = "prune" /\ pc' = "prune") =>
              /\ Coverage(rule', grow_set) >= Coverage(rule, grow_set)
              /\ Coverage(rule', grow_set) >= min_coverage
      ]_vars

C11_RuleWithCoverageTwo ==
    pc = "while" /\ Len(rules) > 0 /\ min_coverage = 2

=============================================================================
